---------------------------- MODULE Spec2Model ----------------------------
(***************************************************************************)
(* A model of the double-ratchet client of src/double-ratchet: the two     *)
(* ends of one session (LocalClient "A", the initiator, and RemoteClient   *)
(* "B"), the locking half, the opening half and InnerClient::open with its *)
(* ratchet step and its rollback.                                          *)
(*                                                                         *)
(* Cryptography is symbolic.  A 32-byte key is a natural, any other byte   *)
(* string a tuple of naturals.  The                                        *)
(* Ratchet (an HKDF chain) is the pair of the seed it was built from and   *)
(* the number of draws made since; the block it yields is named by that    *)
(* pair, so two chains agree on a block exactly when they were seeded      *)
(* alike and are at the same position.  An AEAD ciphertext names the key   *)
(* block that sealed it and opens under that key block only.  X25519 is    *)
(* symbolic too: DH(a, Pub(b)) = DH(b, Pub(a)), and nothing else agrees.   *)
(***************************************************************************)
EXTENDS Integers, Sequences, FiniteSets, TLC

\* ------------------------------------------------------------- bounds --
\* Secrets the system RNG (rand::thread_rng) may return: 1..NSec.
NSec == 1
\* Lock calls per client.
MaxLock == 3
\* Plaintexts a caller may lock: 1..NPlain.
NPlain == 1
\* Open calls, over both clients, on messages the peer did not lock.
MaxForged == 1
\* Largest message_index / previous_step of a message the peer did not lock.
MaxIdx == 1
\* Bytes in the serialisation of a message.
FrameLen == 2
\* Bytes in the state of a Ratchet (the State parameter).
StateSize == 2
\* Draws from one Ratchet whose state is followed byte by byte.
MaxNext == 2

\* The private keys the two ends are constructed with ([2; 32] and [1; 32]).
SkLocal == 2
SkRemote == 1
\* The length of the messages locked ([1; 100]).
MsgLen == 100
\* Algorithm::TagLength and Algorithm::BlockSize of Aes256Gcm.
TagLength == 16
BlockSize == 16
\* std::usize::MAX, of a target whose usize is 16 bits wide.
UsizeMax == 65535
\* The largest message_index a Header holds: u32::MAX, here the largest
\* integer of the model.
U32Max == 2147483647

Sides == {"A", "B"}
Peer(x) == IF x = "A" THEN "B" ELSE "A"
\* LocalClient passes local = true to InnerClient::open, RemoteClient false.
IsLocal(x) == x = "A"

Secrets == 1..NSec

\* ------------------------------------------------------- byte buffers --
\* A byte buffer is a sequence of runs: [byte |-> b, len |-> n] is n bytes
\* of value b.  Repeat(b, n) is the buffer [b; n].
Repeat(b, n) == IF n = 0 THEN <<>> ELSE <<[byte |-> b, len |-> n]>>

\* buffer.len()
RECURSIVE BufLen(_)
BufLen(buf) == IF buf = <<>> THEN 0 ELSE Head(buf).len + BufLen(Tail(buf))

\* &buffer[..n]: the first n bytes.
RECURSIVE Take(_, _)
Take(buf, n) ==
  IF n = 0 \/ buf = <<>> THEN <<>>
  ELSE IF Head(buf).len <= n
         THEN <<Head(buf)>> \o Take(Tail(buf), n - Head(buf).len)
         ELSE <<[Head(buf) EXCEPT !.len = n]>>

\* &buffer[n..]: what follows the first n bytes.
RECURSIVE Drop(_, _)
Drop(buf, n) ==
  IF n = 0 \/ buf = <<>> THEN buf
  ELSE IF Head(buf).len <= n
         THEN Drop(Tail(buf), n - Head(buf).len)
         ELSE <<[Head(buf) EXCEPT !.len = @ - n]>> \o Tail(buf)

\* Clear::clear on a slice: every byte is overwritten with zero.
Zeroed(buf) == [i \in DOMAIN buf |-> [buf[i] EXCEPT !.byte = 0]]

\* The buffers a caller may lock: [p; MsgLen] for p in 1..NPlain.
Plaintexts == {Repeat(p, MsgLen) : p \in 1..NPlain}
\* No bytes: what a failed call returns.
NoPlain == <<>>

\* ------------------------------------------------------------- X25519 --
\* 32-byte strings are naturals: the bytes of the secret s are s itself and
\* the public key of s is another string, PublicOf(s).
AllSecrets == Secrets \cup {SkLocal, SkRemote}
SecretTop == IF NSec > SkLocal THEN NSec ELSE SkLocal
PublicOf(s) == SecretTop + s
IsPublic(b) == b > SecretTop
KeyBytes == AllSecrets \cup {PublicOf(s) : s \in AllSecrets}

\* private.diffie_hellman(public): the shared secret of a and the point b.
\* When b is the public key of a secret the result is the unordered pair of
\* the two secrets; when b is any other string (the bytes of a secret used
\* as a point) the result is a value no other pair of inputs yields.
DiffieHellman(a, b) ==
  IF IsPublic(b)
    THEN LET s == b - SecretTop
         IN  IF a <= s THEN <<1, a, s>> ELSE <<1, s, a>>
    ELSE <<2, a, b>>

\* ------------------------------------------------------------ Ratchet --
\* Ratchet::default(): the all-zero state.
RatchetDefault == [seed |-> <<0>>, n |-> 0]

\* Ratchet::from(bytes): the state is the given bytes.
RatchetFrom(bytes) == [seed |-> bytes, n |-> 0]

\* fill_bytes: the bytes drawn are named by the chain and its position, and
\* the chain moves on.
RatchetFill(r) == [out |-> Append(r.seed, r.n), ratchet |-> [r EXCEPT !.n = @ + 1]]

\* target.reseed(&mut source): the target's state becomes bytes drawn from
\* the source.  Yields the new target and the advanced source.
RatchetReseed(source) ==
  LET f == RatchetFill(source)
  IN  [ratchet |-> RatchetFrom(f.out), source |-> f.ratchet]

\* OpenDataNew with the chain left where it was.
OpenDataAgain(r) == [data |-> RatchetFill(r).out, ratchet |-> r]

\* OpenData::new(rand): key, nonce and aad filled from the chain.
OpenDataNew(r) ==
  LET f == RatchetFill(r)
  IN  [data |-> f.out, ratchet |-> f.ratchet]

\* The state of a Ratchet as bytes in memory.  A byte is <<v>> for the
\* value v of a byte of a seed, or <<state, i>> for byte i of the HKDF
\* output computed from state.
ZeroByte == <<0>>

\* <[u8] as Clear>::clear: every byte is overwritten with zero.
Clear(bytes) == [i \in DOMAIN bytes |-> ZeroByte]

\* What is left of the bytes when nothing clears them.
ClearNever(bytes) == bytes

\* ClearOnDrop::new(place) going out of scope: the place is cleared.
ClearOnDrop(bytes) == Clear(bytes)

\* Ratchet::default(): GenericArray::default(), all bytes zero.
StateDefault == [i \in 1..StateSize |-> ZeroByte]

\* Ratchet::from(state) when it returns: the bytes are copied over the
\* start of the default state.
StateFrom(seed) ==
  [i \in 1..StateSize |-> IF i <= Len(seed) THEN seed[i] ELSE ZeroByte]

\* new.state[..len].copy_from_slice(&state) panics when the lengths
\* differ, which is when the seed is longer than the state.
FromPanics(seed) == Len(seed) > StateSize

\* Ratchet::next: the state is overwritten with the first StateSize bytes
\* of the HKDF output computed from it.
StateNext(state) == [i \in 1..StateSize |-> <<state, i>>]

\* --------------------------------------------------------------- AEAD --
\* seal_in_place: the ciphertext of pt under the key block kb.
Seal(kb, pt) == [kb |-> kb, pt |-> pt]
\* Data that authenticates under no key block.
Tampered == [kb |-> <<>>, pt |-> NoPlain]
\* open_in_place succeeds exactly under the key block that sealed the data.
AeadOpens(kb, data) == data.kb = kb
\* A byte of a ciphertext or of an authentication tag: no byte of a
\* plaintext has this value.
Sealed == 256
\* message.data as bytes: as long as the plaintext and the tag together.
DataBytes(data) == Repeat(Sealed, BufLen(data.pt) + TagLength)
\* The same bytes after open_in_place has succeeded on them: the plaintext
\* comes first.
OpenedInPlace(data) == data.pt \o Repeat(Sealed, TagLength)

\* ------------------------------------------------------------ Message --
HeaderDefault == [public_key |-> 0, message_index |-> 0, previous_step |-> 0]

EmptyMap == <<>>
MapInsert(m, k, v) == [x \in DOMAIN m \cup {k} |-> IF x = k THEN v ELSE m[x]]
MapRemove(m, k) == [x \in DOMAIN m \ {k} |-> m[x]]

\* ---------------------------------------------------------- LockClient --
LockClientDefault == [ratchet |-> RatchetDefault, next_header |-> HeaderDefault]

\* NextHeader with the index left where it was.
NextHeaderSame(h) == h

\* The header kept for the next call: the same header with message_index + 1.
NextHeader(h) == [h EXCEPT !.message_index = @ + 1]

\* LockClient::max_message_length()
MaxMessageLength == ((UsizeMax - TagLength) \div BlockSize) * BlockSize

\* The length check that opens LockClient::lock, with the bound left out.
TooLongNever(buffer) == FALSE

\* The length check that opens LockClient::lock.
TooLong(buffer) == BufLen(buffer) > MaxMessageLength

\* What lock leaves in the caller's buffer, the buffer left as it was.
LockedBufferKept(buffer) == buffer

\* What lock leaves in the caller's buffer once the message is sealed.
LockedBuffer(buffer) == Zeroed(buffer)

NoMessage == [header |-> HeaderDefault, data |-> Tampered]

\* LockClient::lock(buffer): a buffer that is too long is refused before
\* anything is touched; otherwise the message carries the cached header,
\* the cached header moves to the next index, the data is sealed under the
\* next OpenData of the locking chain, and the buffer is cleared.
LockClientLock(lc, pt) ==
  IF TooLong(pt)
    THEN [lock |-> lc, res |-> "MessageLength", message |-> NoMessage,
          buffer |-> pt]
    ELSE
      LET header == lc.next_header
          sealing == OpenDataNew(lc.ratchet)
      IN  [lock |-> [ratchet |-> sealing.ratchet,
                     next_header |-> NextHeader(header)],
           res |-> "Ok",
           message |-> [header |-> header, data |-> Seal(sealing.data, pt)],
           buffer |-> LockedBuffer(pt)]

\* Unsealed with the locking chain put back where it was.
UnsealedRewound(lc, sealing) ==
  [ratchet |-> lc.ratchet, next_header |-> NextHeader(lc.next_header)]

\* The LockClient when seal_in_place has failed: the cached header was
\* replaced and the OpenData drawn before the seal, and the `?` returns
\* without undoing either.
Unsealed(lc, sealing) ==
  [ratchet |-> sealing.ratchet, next_header |-> NextHeader(lc.next_header)]

\* LockClient::lock(buffer) with the outcome of aead::seal_in_place as an
\* input: when it is an error lock returns Error::Encryption, with no
\* message and the buffer not cleared.
LockClientSeal(lc, pt, sealed) ==
  IF TooLong(pt) \/ sealed
    THEN LockClientLock(lc, pt)
    ELSE [lock |-> Unsealed(lc, OpenDataNew(lc.ratchet)),
          res |-> "Encryption", message |-> NoMessage, buffer |-> pt]

\* ---------------------------------------------------------- OpenClient --
OpenClientDefault ==
  [ratchet |-> RatchetDefault, sent_count |-> 0, current_public_key |-> 0,
   current_keys |-> EmptyMap, previous_keys |-> EmptyMap]

\* The error a failed open reports: NoKey when no OpenData was stored for
\* the message, Decryption when the stored OpenData did not open it.
ErrorOf(found) == IF found THEN "Decryption" ELSE "NoKey"

\* The table OpenClient::open takes the OpenData of a message from.
KeyTable(oc, message) == oc.current_keys

\* The length open_in_place returns, the tag counted in.
PlainLenWithTag(data) == BufLen(DataBytes(data))

\* The length open_in_place returns: that of the data without its tag.
PlainLen(data) == BufLen(DataBytes(data)) - TagLength

\* Reinstated with the OpenData dropped.
ReinstatedNever(keys, index, open_data) == keys

\* self.current_keys.insert(message_index, open_data) when the data did
\* not authenticate: the OpenData is stored for a later attempt.
Reinstated(keys, index, open_data) == MapInsert(keys, index, open_data)

\* OpenClient::open(message, buffer): the OpenData stored in current_keys
\* for message_index is removed and the data is appended to the buffer.
\* When the data authenticates it is decrypted in place, the buffer is cut
\* after the plaintext and what was appended is returned; when it does
\* not, the OpenData is stored back.  err is the message an Err carries.
OpenClientOpen(oc, message, buffer) ==
  LET index == message.header.message_index
      table == KeyTable(oc, message)
  IN  IF index \notin DOMAIN table
        THEN [open |-> oc, res |-> ErrorOf(FALSE), pt |-> NoPlain, key |-> <<>>,
              buffer |-> buffer, err |-> message]
        ELSE LET open_data == table[index]
                 removed == [oc EXCEPT !.current_keys = MapRemove(@, index)]
                 buffer_len == BufLen(buffer)
                 extended == buffer \o DataBytes(message.data)
             IN  IF AeadOpens(open_data, message.data)
                   THEN LET len == buffer_len + PlainLen(message.data)
                            cut == Take(buffer \o OpenedInPlace(message.data), len)
                        IN  [open |-> removed, res |-> "Ok",
                             pt |-> Drop(cut, buffer_len),
                             key |-> open_data, buffer |-> cut,
                             err |-> NoMessage]
                   ELSE [open |-> [removed EXCEPT
                                     !.current_keys = Reinstated(@, index, open_data)],
                         res |-> ErrorOf(TRUE), pt |-> NoPlain, key |-> open_data,
                         buffer |-> extended, err |-> message]

\* --------------------------------------------------------- InnerClient --
InnerClientDefault ==
  [lock |-> LockClientDefault, open |-> OpenClientDefault, private_key |-> 0]

\* GenerateKeys with one draw only, stored for the last index of the range.
GenerateKeysLast(keys, ratchet, from, to) ==
  IF from >= to
    THEN [keys |-> keys, ratchet |-> ratchet]
    ELSE LET d == OpenDataNew(ratchet)
         IN  [keys |-> MapInsert(keys, to - 1, d.data), ratchet |-> d.ratchet]

\* for index in from..to { keys.insert(index, OpenData::new(ratchet)) }
RECURSIVE GenerateKeys(_, _, _, _)
GenerateKeys(keys, ratchet, from, to) ==
  IF from >= to
    THEN [keys |-> keys, ratchet |-> ratchet]
    ELSE LET d == OpenDataNew(ratchet)
         IN  GenerateKeys(MapInsert(keys, from, d.data), d.ratchet, from + 1, to)

\* for index in from..to { keys.remove(&index) }
RemoveKeys(keys, from, to) ==
  [x \in {i \in DOMAIN keys : ~(from <= i /\ i < to)} |-> keys[x]]

\* StepSentCount with the count left at the index of the message.
StepSentCountAtIndex(saved, message_index) == message_index

\* The value InnerClient::open stores in sent_count for a message of the
\* current step, message_index + 1 in u32 arithmetic without overflow
\* checks: past the largest index it wraps to 0.
StepSentCount(saved, message_index) ==
  IF message_index = U32Max THEN 0 ELSE message_index + 1

\* Does message_index + 1 overflow for this message: it does for the
\* largest index, in a message of the current step.
Overflows(c, message) ==
  /\ message.header.public_key = c.open.current_public_key
  /\ message.header.message_index = U32Max

\* InnerClient::open, the branch for a message of an existing ratchet step
\* (the current one or a previous one), with the rollback that ends open.
OpenExisting(c, message, buffer) ==
  LET sent_count == c.open.sent_count
      ratchet == c.open.ratchet
      index == message.header.message_index
      current_step == c.open.current_public_key = message.header.public_key
      counted == IF current_step
                   THEN [c.open EXCEPT !.sent_count = StepSentCount(sent_count, index)]
                   ELSE c.open
      gen == IF current_step /\ sent_count <= index
               THEN GenerateKeys(counted.current_keys, counted.ratchet,
                                 sent_count, counted.sent_count)
               ELSE [keys |-> counted.current_keys, ratchet |-> counted.ratchet]
      ready == [counted EXCEPT !.current_keys = gen.keys, !.ratchet = gen.ratchet]
      r == OpenClientOpen(ready, message, buffer)
  IN  IF r.res = "Ok"
        THEN [client |-> [c EXCEPT !.open = r.open], res |-> r.res, pt |-> r.pt,
              key |-> r.key, buffer |-> r.buffer, err |-> r.err]
        ELSE [client |-> [c EXCEPT !.open =
                 [r.open EXCEPT
                    !.current_keys = RemoveKeys(@, sent_count, r.open.sent_count),
                    !.sent_count = sent_count,
                    !.ratchet = ratchet]],
              res |-> r.res, pt |-> NoPlain, key |-> r.key, buffer |-> r.buffer,
              err |-> r.err]

\* The public key a ratchet step writes into the next header: the bytes of
\* the new private key.
StepHeaderKey(private_key) == private_key

\* StepChains with the order of the two reseeds exchanged.
StepChainsOpenFirst(step_seed, local) ==
  LET fst == RatchetReseed(step_seed)
      snd == RatchetReseed(fst.source)
  IN  IF local THEN [open |-> fst.ratchet, lock |-> snd.ratchet]
               ELSE [lock |-> fst.ratchet, open |-> snd.ratchet]

\* The two reseeds of a ratchet step, in the order the client's side takes
\* them from the step seed: the locking chain first on the local client,
\* the opening chain first on the remote client.
StepChains(step_seed, local) ==
  LET fst == RatchetReseed(step_seed)
      snd == RatchetReseed(fst.source)
  IN  IF local THEN [lock |-> fst.ratchet, open |-> snd.ratchet]
               ELSE [open |-> fst.ratchet, lock |-> snd.ratchet]

\* NewStep without the comparison with the current public key.
NewStepUnlessPrevious(c, message) ==
  message.header.public_key \notin DOMAIN c.open.previous_keys

\* Is the message part of a new ratchet step: its public key is neither
\* the current one nor one of the previous steps.
NewStep(c, message) ==
  /\ c.open.current_public_key # message.header.public_key
  /\ message.header.public_key \notin DOMAIN c.open.previous_keys

\* RolledBackLock with the locking half of the step kept.
RolledBackLockNever(lock_client, stepped) == stepped

\* self.lock = mem::replace(&mut lock_client, LockClient::default()): the
\* locking half a failed ratchet step leaves is the one saved before it.
RolledBackLock(lock_client, stepped) == lock_client

\* InnerClient::open(message, buffer, local); rng is the private key
\* StaticSecret::new(thread_rng()) returns when a ratchet step is taken.
InnerClientOpen(c, message, buffer, local, rng) ==
  IF ~NewStep(c, message)
    THEN OpenExisting(c, message, buffer)
    ELSE
      LET sent_count == c.open.sent_count
          ratchet == c.open.ratchet
          current_public_key == c.open.current_public_key
          private_key == c.private_key
          previous_step == message.header.previous_step
          gen == IF sent_count <= previous_step
                   THEN GenerateKeys(c.open.current_keys, c.open.ratchet,
                                     sent_count, previous_step)
                   ELSE [keys |-> c.open.current_keys, ratchet |-> c.open.ratchet]
          lock_client == c.lock
          step_seed == RatchetFrom(DiffieHellman(rng, message.header.public_key))
          chains == StepChains(step_seed, local)
          stepped ==
            [lock |-> [ratchet |-> chains.lock,
                       next_header |-> [HeaderDefault EXCEPT
                                          !.public_key = StepHeaderKey(rng)]],
             open |-> [ratchet |-> chains.open,
                       sent_count |-> 0,
                       current_public_key |-> message.header.public_key,
                       current_keys |-> EmptyMap,
                       previous_keys |-> MapInsert(c.open.previous_keys,
                                                   current_public_key, gen.keys)],
             private_key |-> rng]
          r == OpenExisting(stepped, message, buffer)
      IN  IF r.res = "Ok"
            THEN r
            ELSE
              LET restored == r.client.open.previous_keys[current_public_key]
                  kept == IF sent_count <= previous_step
                            THEN RemoveKeys(restored, sent_count, previous_step)
                            ELSE restored
              IN  [client |->
                     [lock |-> RolledBackLock(lock_client, r.client.lock),
                      open |-> [ratchet |-> ratchet,
                                sent_count |-> sent_count,
                                current_public_key |-> current_public_key,
                                current_keys |-> kept,
                                previous_keys |-> MapRemove(r.client.open.previous_keys,
                                                            current_public_key)],
                      private_key |-> private_key],
                   res |-> r.res, pt |-> NoPlain, key |-> r.key,
                   buffer |-> r.buffer, err |-> r.err]

\* LocalClient::connect(remote, private_key); rng is the private key the
\* client stores, drawn from the system RNG.
Connect(remote, private_key, rng) ==
  LET seed == RatchetFrom(DiffieHellman(private_key, remote))
      fst == RatchetReseed(seed)
      snd == RatchetReseed(fst.source)
  IN  [lock |-> [ratchet |-> fst.ratchet,
                 next_header |-> [HeaderDefault EXCEPT
                                    !.public_key = PublicOf(private_key)]],
       open |-> [OpenClientDefault EXCEPT !.ratchet = snd.ratchet,
                                          !.current_public_key = remote],
       private_key |-> rng]

\* Accept with the chains seeded in the order of connect.
AcceptLockFirst(remote, private_key, rng) == Connect(remote, private_key, rng)

\* RemoteClient::accept(remote, private_key): as connect, the opening chain
\* seeded first.
Accept(remote, private_key, rng) ==
  LET seed == RatchetFrom(DiffieHellman(private_key, remote))
      fst == RatchetReseed(seed)
      snd == RatchetReseed(fst.source)
  IN  [lock |-> [ratchet |-> snd.ratchet,
                 next_header |-> [HeaderDefault EXCEPT
                                    !.public_key = PublicOf(private_key)]],
       open |-> [OpenClientDefault EXCEPT !.ratchet = fst.ratchet,
                                          !.current_public_key = remote],
       private_key |-> rng]

\* -------------------------------------------------------------- serde --
\* Serialised values are tuples: a struct is the tuple of its fields in the
\* order the Serialize impl writes them, a HashMap the sequence of its
\* (key, value) entries in the order the map is iterated.

\* Ratchet: the bytes of the state.
SerializeRatchet(r) == <<r.seed, r.n>>
DeserializeRatchet(b) == [seed |-> b[1], n |-> b[2]]

\* Header: public_key, message_index, previous_step.
SerializeHeader(h) == <<h.public_key, h.message_index, h.previous_step>>
DeserializeHeader(b) ==
  [public_key |-> b[1], message_index |-> b[2], previous_step |-> b[3]]

\* The orders a HashMap whose keys are S may be iterated in: the order
\* depends on the hasher of the map, seeded when the map is created.
Orderings(S) ==
  {f \in [1..Cardinality(S) -> S] : \A i, j \in DOMAIN f : f[i] = f[j] => i = j}

\* HashMap<u32, OpenData>: the serialisations the map may produce.
SerializeMap(m) ==
  {[i \in DOMAIN f |-> <<f[i], m[f[i]]>>] : f \in Orderings(DOMAIN m)}
\* The map the entries are collected into.
DeserializeMap(es) ==
  [k \in {es[i][1] : i \in DOMAIN es} |->
     es[CHOOSE i \in DOMAIN es :
          es[i][1] = k /\ \A j \in DOMAIN es : es[j][1] = k => j <= i][2]]

\* HashMap<KeyBytes, HashMap<u32, OpenData>>
SerializeSteps(pm) ==
  UNION {
    {[i \in DOMAIN f |-> <<f[i], g[f[i]]>>] :
       g \in {h \in [DOMAIN pm -> UNION {SerializeMap(pm[k]) : k \in DOMAIN pm}] :
                \A k \in DOMAIN pm : h[k] \in SerializeMap(pm[k])}}
    : f \in Orderings(DOMAIN pm)}
DeserializeSteps(es) ==
  [k \in {es[i][1] : i \in DOMAIN es} |->
     DeserializeMap(
       es[CHOOSE i \in DOMAIN es :
            es[i][1] = k /\ \A j \in DOMAIN es : es[j][1] = k => j <= i][2])]

\* LockClient: ratchet, next_header.
SerializeLockClient(lc) ==
  <<SerializeRatchet(lc.ratchet), SerializeHeader(lc.next_header)>>
DeserializeLockClient(b) ==
  [ratchet |-> DeserializeRatchet(b[1]), next_header |-> DeserializeHeader(b[2])]

\* OpenClient: ratchet, sent_count, current_public_key, current_keys,
\* previous_keys.
SerializeOpenClient(oc) ==
  {<<SerializeRatchet(oc.ratchet), oc.sent_count, oc.current_public_key, ck, pk>> :
     ck \in SerializeMap(oc.current_keys), pk \in SerializeSteps(oc.previous_keys)}
DeserializeOpenClient(b) ==
  [ratchet |-> DeserializeRatchet(b[1]), sent_count |-> b[2],
   current_public_key |-> b[3], current_keys |-> DeserializeMap(b[4]),
   previous_keys |-> DeserializeSteps(b[5])]

\* InnerClient: lock, open, private_key.
SerializeInnerClient(c) ==
  {<<SerializeLockClient(c.lock), o, c.private_key>> :
     o \in SerializeOpenClient(c.open)}
DeserializeInnerClient(b) ==
  [lock |-> DeserializeLockClient(b[1]), open |-> DeserializeOpenClient(b[2]),
   private_key |-> b[3]]

\* LocalClient / RemoteClient: the tuple of the role (true for LocalClient)
\* and the InnerClient.
SerializeClient(local, c) == {<<local, b>> : b \in SerializeInnerClient(c)}
\* Deserialize for LocalClient (local) or RemoteClient (~local): bytes of
\* the other role are refused.
DeserializeClient(local, b) ==
  IF b[1] # local
    THEN [res |-> "Err", client |-> InnerClientDefault]
    ELSE [res |-> "Ok", client |-> DeserializeInnerClient(b[2])]

\* ------------------------------------------------------------- Framed --
\* ser::to_writer_packed(io, &message): the bytes of a message.  Byte i of
\* the serialisation of m is the pair of m and i.
Encode(m) == [i \in 1..FrameLen |-> [m |-> m, i |-> i]]

\* de::from_slice(input): a message when input is exactly the bytes of one;
\* an Eof error when input is empty or a proper prefix of the bytes of one;
\* a Syntax error otherwise, at the offset of the byte that was read last:
\* the first byte that does not fit, or the byte that follows a complete
\* message (trailing data).
FromSlice(input) ==
  IF input = <<>>
    THEN [res |-> "Eof", offset |-> 0, message |-> NoMessage]
    ELSE
      LET m == input[1].m
          top == IF Len(input) < FrameLen THEN Len(input) ELSE FrameLen
          bad == {i \in 1..top : input[i] # [m |-> m, i |-> i]}
      IN  IF bad # {}
            THEN [res |-> "Syntax",
                  offset |-> CHOOSE i \in bad : \A j \in bad : i <= j,
                  message |-> NoMessage]
          ELSE IF Len(input) < FrameLen
            THEN [res |-> "Eof", offset |-> Len(input), message |-> NoMessage]
          ELSE IF Len(input) = FrameLen
            THEN [res |-> "Ok", offset |-> FrameLen, message |-> m]
          ELSE [res |-> "Syntax", offset |-> FrameLen + 1, message |-> NoMessage]

\* input.drain(range) with the whole input removed.
DrainedAll(input, offset) == <<>>

\* input.drain(..offset - 1): what is left of the input.
Drained(input, offset) == SubSeq(input, offset, Len(input))

\* The second arm of the match in receive_one: whole is the syntax error
\* of the first parse and front the parse of the input before its offset.
Retried(input, whole, front) ==
  IF front.res = "Ok"
    THEN [res |-> "Ok", message |-> front.message,
          input |-> Drained(input, whole.offset)]
    ELSE [res |-> "Syntax", message |-> NoMessage, input |-> input]

\* The match in receive_one on whole, the result of de::from_slice(input):
\* the message and what is left of the input, or the error.
Parsed(input, whole) ==
  IF whole.res = "Ok"
    THEN [res |-> "Ok", message |-> whole.message, input |-> <<>>]
  ELSE IF whole.res = "Syntax" /\ whole.offset > 0
    THEN Retried(input, whole, FromSlice(SubSeq(input, 1, whole.offset - 1)))
  ELSE [res |-> whole.res, message |-> NoMessage, input |-> input]

\* OpenedOne with the bytes of a message that failed to open left at the
\* front of the input.
OpenedOneRequeued(parsed, r) ==
  [res |-> IF r.res = "Ok" THEN "Some" ELSE "Open", client |-> r.client,
   input |-> IF r.res = "Ok" THEN parsed.input
             ELSE Encode(parsed.message) \o parsed.input,
   buffer |-> r.buffer, pt |-> r.pt,
   message |-> parsed.message, key |-> r.key]

\* What receive_one returns when the message of parsed was opened with
\* result r.
OpenedOne(parsed, r) ==
  [res |-> IF r.res = "Ok" THEN "Some" ELSE "Open", client |-> r.client,
   input |-> parsed.input, buffer |-> r.buffer, pt |-> r.pt,
   message |-> parsed.message, key |-> r.key]

\* receive_one after the match: the error is returned, or the message is
\* opened into buffer.
ReceiveParsed(c, parsed, input, buffer, local, rng) ==
  IF parsed.res # "Ok"
    THEN [res |-> IF parsed.res = "Eof" THEN "Eof" ELSE "Deserialise",
          client |-> c, input |-> input, buffer |-> buffer, pt |-> NoPlain,
          message |-> NoMessage, key |-> <<>>]
    ELSE OpenedOne(parsed,
                   InnerClientOpen(c, parsed.message, buffer, local, rng))

\* receive_one(client, input, buffer): one message is parsed off the front
\* of input and removed from it, then opened into buffer.
ReceiveOne(c, input, buffer, local, rng) ==
  ReceiveParsed(c, Parsed(input, FromSlice(input)), input, buffer, local, rng)

\* self.buffer.extend(&buf[..len]) with what was buffered dropped.
ExtendedNew(input, read) == read

\* self.buffer.extend(&buf[..len]), for all the bytes the read loop got.
Extended(input, read) == input \o read

\* What recv returns when the read loop got no byte, without the check
\* for unparsed bytes.
IdleAtEof(would_block, input) == IF would_block THEN "Pending" ELSE "None"

\* What recv returns when the read loop got no byte: Pending when the read
\* would block, at EOF Ready(None) when nothing is buffered and
\* Recv(UnexpectedEof) otherwise.
Idle(would_block, input) ==
  IF would_block THEN "Pending"
  ELSE IF input = <<>> THEN "None" ELSE "UnexpectedEof"

\* Framed::recv(buffer) on a non-blocking io: readable are the bytes a read
\* returns now and eof says whether a read returns 0 after them.  input of
\* the result: the buffer of the Framed and the bytes left to read.
RECURSIVE FramedRecv(_, _, _, _, _, _, _)

\* The match in recv on first, the result of receive_one.  When it failed
\* for want of data, everything readable is read into the input buffer; if
\* that was nothing the call ends, else recv is called again.
RecvAfter(first, c, input, readable, eof, buffer, local, rng) ==
  IF first.res # "Eof"
    THEN [first EXCEPT !.input = [buffer |-> first.input, io |-> readable]]
  ELSE IF readable = <<>>
    THEN [res |-> Idle(~eof, input), client |-> c,
          input |-> [buffer |-> input, io |-> <<>>],
          buffer |-> buffer, pt |-> NoPlain, message |-> NoMessage,
          key |-> <<>>]
  ELSE FramedRecv(c, Extended(input, readable), <<>>, eof, buffer, local, rng)

FramedRecv(c, input, readable, eof, buffer, local, rng) ==
  RecvAfter(ReceiveOne(c, input, buffer, local, rng),
            c, input, readable, eof, buffer, local, rng)

\* ------------------------------------------------------------- state --
VARIABLES
  client,   \* client[x]: the InnerClient of side x
  wire,     \* the messages locked so far: [from, header, data]
  opened,   \* opened[x]: the peer's messages x has opened successfully
  order,    \* order[x]: their message_index, in the order x opened them
  forged,   \* open calls made so far on messages the peer did not lock
  last,     \* the last call: what it was given, what it returned, and the
            \* client it was made on as it was before the call
  disk,     \* the last serialised client, the client deserialised from it
            \* and what that one was serialised to
  link,     \* link[x]: the stream x's peer writes to x.  flight: bytes the
            \* peer has serialised that have not reached x; io: bytes x can
            \* read; closed: the peer has dropped its end; buffer: the
            \* unparsed bytes of x's Framed
  mem       \* memory that holds chain state.  seed: the caller's seed bytes;
            \* live, state, n: whether the Ratchet is alive, the bytes where
            \* its state is or was, and the draws made; op, given, was: the
            \* last operation, the seed it was given and the state a drop
            \* found

vars == <<client, wire, opened, order, forged, last, disk, link, mem>>

\* A stream nothing was written to.
NoLink == [flight |-> <<>>, io |-> <<>>, closed |-> FALSE, buffer |-> <<>>]

\* Memory before any Ratchet is made.
NoMem ==
  [seed |-> <<>>, live |-> FALSE, state |-> StateDefault, n |-> 0,
   op |-> "none", given |-> <<>>, was |-> StateDefault]

\* Nothing serialised yet.
NoDisk ==
  [op |-> "none", bytes |-> <<>>, source |-> InnerClientDefault, local |-> TRUE,
   as |-> TRUE, res |-> "Ok", loaded |-> InnerClientDefault, again |-> <<>>]

Init ==
  /\ \E ra \in Secrets, rb \in Secrets :
       client = [x \in Sides |->
                   IF x = "A" THEN Connect(PublicOf(SkRemote), SkLocal, ra)
                              ELSE Accept(PublicOf(SkLocal), SkRemote, rb)]
  /\ wire = {}
  /\ opened = [x \in Sides |-> {}]
  /\ order = [x \in Sides |-> <<>>]
  /\ forged = 0
  /\ last = [op |-> "init", side |-> "A", message |-> NoMessage, res |-> "Ok",
             pt |-> NoPlain, key |-> <<>>, genuine |-> FALSE, first |-> FALSE,
             pre |-> InnerClientDefault, given |-> <<>>, buffer |-> <<>>,
             link |-> NoLink, err |-> NoMessage]
  /\ disk = NoDisk
  /\ link = [x \in Sides |-> NoLink]
  /\ mem = NoMem

\* The messages x's peer has locked.
FromPeer(x) == {[header |-> m.header, data |-> m.data] : m \in {w \in wire : w.from = Peer(x)}}

\* InnerClientLock with the rest of the client built anew.
InnerClientLockOnly(c, r) == [InnerClientDefault EXCEPT !.lock = r.lock]

\* The client after InnerClient::lock, self.lock.lock(message), has
\* returned r.
InnerClientLock(c, r) == [c EXCEPT !.lock = r.lock]

\* InnerClient::lock on side x, on a buffer holding pt, with sealed telling
\* whether the AEAD seals the data.
LockSealCall(x, pt, sealed) ==
  \E r \in {LockClientSeal(client[x].lock, pt, sealed)} :
      /\ client' = [client EXCEPT ![x] = InnerClientLock(client[x], r)]
      /\ wire' = IF r.res = "Ok"
                   THEN wire \cup {[from |-> x, header |-> r.message.header,
                                    data |-> r.message.data]}
                   ELSE wire
      /\ last' = [op |-> "lock", side |-> x, message |-> r.message,
                  res |-> r.res, pt |-> pt, key |-> r.message.data.kb,
                  genuine |-> TRUE, first |-> TRUE, pre |-> client[x],
                  given |-> pt, buffer |-> r.buffer, link |-> link[x],
                  err |-> NoMessage]
      /\ UNCHANGED <<opened, order, forged, disk, link, mem>>

\* InnerClient::lock on side x, on a buffer holding pt the AEAD seals.
LockCall(x, pt) == LockSealCall(x, pt, TRUE)

\* Side x locks a buffer the AEAD fails to seal.
LockUnsealed(x) ==
  /\ client[x].lock.next_header.message_index < MaxLock
  /\ \E pt \in Plaintexts : LockSealCall(x, pt, FALSE)

\* Side x locks a message.
Lock(x) ==
  /\ Cardinality({w \in wire : w.from = x}) < MaxLock
  /\ \E pt \in Plaintexts : LockCall(x, pt)

\* The longest buffer lock accepts and the shortest it refuses.
LongPlaintexts ==
  {Repeat(1, MaxMessageLength), Repeat(1, MaxMessageLength + 1)}

\* Side x locks a buffer whose length is at the bound.
LockLong(x) ==
  /\ Cardinality({w \in wire : w.from = x}) < MaxLock
  /\ \E pt \in LongPlaintexts : LockCall(x, pt)

\* The output buffer of a caller that clears it before every open.
Cleared == <<>>

\* What the output buffer of any other caller holds when open is called:
\* nothing, or bytes of an earlier use.
OutBufs == {Cleared, Repeat(7, 2)}

\* What the system RNG may return to an open of m on side x: it is asked
\* for a private key only when the call takes a ratchet step.
RngDraws(x, m) == IF NewStep(client[x], m) THEN Secrets ELSE {0}

\* The open of message m on side x into buffer, with the system RNG
\* returning rng.
OpenCall(x, m, buffer, rng) ==
  \E r \in {InnerClientOpen(client[x], m, buffer, IsLocal(x), rng)} :
  LET genuine == m \in FromPeer(x)
  IN  /\ client' = [client EXCEPT ![x] = r.client]
      /\ opened' = IF genuine /\ r.res = "Ok"
                     THEN [opened EXCEPT ![x] = @ \cup {m}] ELSE opened
      /\ order' = IF genuine /\ r.res = "Ok"
                    THEN [order EXCEPT ![x] = Append(@, m.header.message_index)]
                    ELSE order
      /\ last' = [op |-> "open", side |-> x, message |-> m, res |-> r.res,
                  pt |-> r.pt, key |-> r.key, genuine |-> genuine,
                  first |-> genuine /\ m \notin opened[x], pre |-> client[x],
                  given |-> buffer, buffer |-> r.buffer, link |-> link[x],
                  err |-> r.err]
      /\ UNCHANGED <<wire, disk, link, mem>>

\* Side x opens a message its peer locked: any of them, in any order, also
\* one it was given before.
Deliver(x) ==
  /\ \E m \in FromPeer(x) : \E rng \in RngDraws(x, m) :
       OpenCall(x, m, Cleared, rng)
  /\ UNCHANGED forged

\* Side x opens a message of its peer that it has not opened yet: every
\* message is opened at most once, in any order.
DeliverOnce(x) ==
  /\ \E m \in FromPeer(x) \ opened[x] : \E rng \in RngDraws(x, m) :
       OpenCall(x, m, Cleared, rng)
  /\ UNCHANGED forged

\* Side x opens the peer's messages in increasing message_index order,
\* some of them never.
DeliverInOrder(x) ==
  /\ \E m \in FromPeer(x) : \E rng \in RngDraws(x, m) :
       /\ \A o \in opened[x] : o.header.message_index < m.header.message_index
       /\ OpenCall(x, m, Cleared, rng)
  /\ UNCHANGED forged

\* As DeliverInOrder, into an output buffer that may hold earlier bytes.
Receive(x) ==
  /\ \E m \in FromPeer(x), buffer \in OutBufs : \E rng \in RngDraws(x, m) :
       /\ \A o \in opened[x] : o.header.message_index < m.header.message_index
       /\ OpenCall(x, m, buffer, rng)
  /\ UNCHANGED forged

\* The data of a message the peer did not lock: data that authenticates
\* under nothing, or data sealed under an OpenData of a chain seeded from
\* a step seed for its public key (any other data fails to authenticate as
\* the first does).
ForgedData(pk, index, key) ==
  {Tampered}
    \cup {Seal(Append(Append(DiffieHellman(key, pk), k), index), pt) :
            k \in 0..1, pt \in Plaintexts}

\* Side x opens a message its peer did not lock.
Forge(x) ==
  /\ forged < MaxForged
  /\ \E pk \in KeyBytes, index \in 0..MaxIdx, previous_step \in 0..MaxIdx,
        key \in Secrets :
       \E data \in ForgedData(pk, index, key) :
         LET m == [header |-> [public_key |-> pk, message_index |-> index,
                               previous_step |-> previous_step],
                   data |-> data]
         IN  /\ m \notin FromPeer(x)
             /\ \E rng \in RngDraws(x, m) : OpenCall(x, m, Cleared, rng)
  /\ forged' = forged + 1

\* Side x opens a message of a ratchet step new to it, which its peer did
\* not lock; the header may count as many messages of the step before as
\* the peer can have locked.
ForgeStep(x) ==
  /\ forged < MaxForged
  /\ \E pk \in KeyBytes, index \in 0..MaxIdx, previous_step \in 0..MaxLock,
        key \in Secrets :
       \E data \in ForgedData(pk, index, key) :
         LET m == [header |-> [public_key |-> pk, message_index |-> index,
                               previous_step |-> previous_step],
                   data |-> data]
         IN  /\ NewStep(client[x], m)
             /\ \E rng \in Secrets : OpenCall(x, m, Cleared, rng)
  /\ forged' = forged + 1

\* Side x opens a copy of a message of its peer whose data was altered in
\* transit.
Tamper(x) ==
  /\ forged < MaxForged
  /\ \E m \in FromPeer(x) :
       \E rng \in RngDraws(x, m) :
         OpenCall(x, [m EXCEPT !.data = Tampered], Cleared, rng)
  /\ forged' = forged + 1

\* Side x opens the first or the second message of a ratchet step new to
\* it, sent after at most two messages of the step before.
EpochStep(x) ==
  /\ forged < MaxForged
  /\ \E pk \in KeyBytes, index \in {0, 1}, previous_step \in {0, 1, 2},
        key \in Secrets :
       \E data \in ForgedData(pk, index, key) :
         LET m == [header |-> [public_key |-> pk, message_index |-> index,
                               previous_step |-> previous_step],
                   data |-> data]
         IN  /\ NewStep(client[x], m)
             /\ \E rng \in Secrets : OpenCall(x, m, Cleared, rng)
  /\ forged' = forged + 1

\* Side x opens the first or the second message of its current ratchet
\* step or of a step it has left, which its peer did not lock.
ForgeKnown(x) ==
  /\ forged < MaxForged
  /\ \E pk \in {client[x].open.current_public_key}
                 \cup DOMAIN client[x].open.previous_keys,
        index \in {0, 1}, key \in Secrets :
       \E data \in ForgedData(pk, index, key) :
         LET m == [header |-> [public_key |-> pk, message_index |-> index,
                               previous_step |-> 0],
                   data |-> data]
         IN  /\ m \notin FromPeer(x)
             /\ OpenCall(x, m, Cleared, 0)
  /\ forged' = forged + 1

\* The shared secret a chain or a key block was derived from.
SecretOf(bytes) == SubSeq(bytes, 1, 3)

\* The shared secrets the locking chains of side x have been seeded from.
LockSecrets(x) ==
  {SecretOf(client[x].lock.ratchet.seed)}
    \cup {SecretOf(w.data.kb) : w \in {v \in wire : v.from = x}}

\* Side x opens the first or the second message of a ratchet step new to
\* it; the private key the system RNG returns is a fresh one, so that the
\* shared secret of the step is none the locking chains of x were seeded
\* from before.
FreshStep(x) ==
  /\ forged < MaxForged
  /\ \E pk \in KeyBytes, index \in {0, 1}, previous_step \in {0, 1},
        key \in Secrets, rng \in Secrets :
       \E data \in ForgedData(pk, index, key) :
         LET m == [header |-> [public_key |-> pk, message_index |-> index,
                               previous_step |-> previous_step],
                   data |-> data]
         IN  /\ NewStep(client[x], m)
             /\ DiffieHellman(rng, pk) \notin LockSecrets(x)
             /\ OpenCall(x, m, Cleared, rng)
  /\ forged' = forged + 1

\* Side x opens a message of its current ratchet step whose index is the
\* largest a header holds.  In a build with overflow checks the addition
\* at the head of the branch panics, before anything is written; in a
\* build without them it wraps.
OpenLast(x) ==
  /\ forged < MaxForged
  /\ \E key \in Secrets, checked \in BOOLEAN :
       \E data \in ForgedData(client[x].open.current_public_key, 0, key) :
         LET m == [header |-> [public_key |-> client[x].open.current_public_key,
                               message_index |-> U32Max,
                               previous_step |-> 0],
                   data |-> data]
         IN  IF checked /\ Overflows(client[x], m)
               THEN /\ last' = [op |-> "open", side |-> x, message |-> m,
                                res |-> "Panic", pt |-> NoPlain, key |-> <<>>,
                                genuine |-> FALSE, first |-> FALSE,
                                pre |-> client[x], given |-> Cleared,
                                buffer |-> Cleared, link |-> link[x],
                                err |-> NoMessage]
                    /\ UNCHANGED <<client, wire, opened, order, disk, link, mem>>
               ELSE OpenCall(x, m, Cleared, 0)
  /\ forged' = forged + 1

\* The client of side x is serialised.
Save(x) ==
  /\ \E b \in SerializeClient(IsLocal(x), client[x]) :
       disk' = [NoDisk EXCEPT !.op = "save", !.bytes = b, !.source = client[x],
                              !.local = IsLocal(x)]
  /\ UNCHANGED <<client, wire, opened, order, forged, last, link, mem>>

\* The serialised bytes are deserialised as a LocalClient (local) or as a
\* RemoteClient.
Load(local) ==
  /\ disk.op # "none"
  /\ LET r == DeserializeClient(local, disk.bytes)
     IN  disk' = [disk EXCEPT !.op = "load", !.as = local, !.res = r.res,
                              !.loaded = r.client, !.again = <<>>]
  /\ UNCHANGED <<client, wire, opened, order, forged, last, link, mem>>

\* The deserialised client is serialised.
SaveLoaded ==
  /\ disk.op = "load" /\ disk.res = "Ok"
  /\ \E b \in SerializeClient(disk.as, disk.loaded) :
       disk' = [disk EXCEPT !.op = "resave", !.again = b]
  /\ UNCHANGED <<client, wire, opened, order, forged, last, link, mem>>

\* The messages given to send: two, so that messages sent one after the
\* other can differ.
Payloads == {Repeat(p, MsgLen) : p \in {1, 2}}

\* Side x locks a message and writes its serialisation to the stream to
\* its peer: Framed::send, or lock and to_vec_packed on a bare socket.
Send(x) ==
  /\ Cardinality({w \in wire : w.from = x}) < MaxLock
  /\ ~link[Peer(x)].closed
  /\ \E pt \in Payloads :
       \E r \in {LockClientLock(client[x].lock, pt)} :
         /\ client' = [client EXCEPT ![x].lock = r.lock]
         /\ wire' = wire \cup {[from |-> x, header |-> r.message.header,
                                data |-> r.message.data]}
         /\ link' = [link EXCEPT ![Peer(x)].flight = @ \o Encode(r.message)]
         /\ last' = [op |-> "send", side |-> x, message |-> r.message,
                     res |-> r.res, pt |-> pt, key |-> r.message.data.kb,
                     genuine |-> TRUE, first |-> TRUE, pre |-> client[x],
                     given |-> pt, buffer |-> r.buffer, link |-> link[x],
                     err |-> NoMessage]
  /\ UNCHANGED <<opened, order, forged, disk, mem>>

\* The serialisation of a copy of a message sent to x, with altered data,
\* is put on the stream to x after the bytes already there.
Inject(x) ==
  /\ forged < MaxForged
  /\ ~link[x].closed
  /\ \E m \in FromPeer(x) :
       link' = [link EXCEPT
                  ![x].flight = @ \o Encode([m EXCEPT !.data = Tampered])]
  /\ forged' = forged + 1
  /\ UNCHANGED <<client, wire, opened, order, last, disk, mem>>

\* Some of the bytes on their way to x reach x.
Arrive(x) ==
  /\ \E n \in 1..Len(link[x].flight) :
       link' = [link EXCEPT ![x].flight = SubSeq(@, n + 1, Len(@)),
                            ![x].io = @ \o SubSeq(link[x].flight, 1, n)]
  /\ UNCHANGED <<client, wire, opened, order, forged, last, disk, mem>>

\* All the bytes on their way to x reach x.
ArriveAll(x) ==
  /\ link[x].flight # <<>>
  /\ link' = [link EXCEPT ![x].flight = <<>>, ![x].io = @ \o link[x].flight]
  /\ UNCHANGED <<client, wire, opened, order, forged, last, disk, mem>>

\* The peer of x drops its end of the stream: of the bytes it had
\* serialised and not yet written, none is written any more.
Close(x) ==
  /\ ~link[x].closed
  /\ \E n \in 0..Len(link[x].flight) :
       link' = [link EXCEPT ![x].flight = SubSeq(@, 1, n), ![x].closed = TRUE]
  /\ UNCHANGED <<client, wire, opened, order, forged, last, disk, mem>>

\* The message at the front of the bytes x's Framed holds or can read.
FrontMessage(x) ==
  LET all == link[x].buffer \o link[x].io
  IN  IF all = <<>> THEN NoMessage ELSE all[1].m

\* Framed::recv on side x, into an empty buffer.
Recv(x) ==
  /\ \E rng \in RngDraws(x, FrontMessage(x)) :
       \E r \in {FramedRecv(client[x], link[x].buffer, link[x].io,
                             link[x].closed /\ link[x].flight = <<>>,
                             Cleared, IsLocal(x), rng)} :
         LET genuine == r.message \in FromPeer(x)
         IN  /\ client' = [client EXCEPT ![x] = r.client]
             /\ link' = [link EXCEPT ![x].buffer = r.input.buffer,
                                      ![x].io = r.input.io]
             /\ opened' = IF genuine /\ r.res = "Some"
                            THEN [opened EXCEPT ![x] = @ \cup {r.message}]
                            ELSE opened
             /\ order' = IF genuine /\ r.res = "Some"
                           THEN [order EXCEPT
                                   ![x] = Append(@, r.message.header.message_index)]
                           ELSE order
             /\ last' = [op |-> "recv", side |-> x, message |-> r.message,
                         res |-> r.res, pt |-> r.pt, key |-> r.key,
                         genuine |-> genuine,
                         first |-> genuine /\ r.message \notin opened[x],
                         pre |-> client[x], given |-> Cleared,
                         buffer |-> r.buffer, link |-> link[x],
                         err |-> NoMessage]
  /\ UNCHANGED <<wire, forged, disk, mem>>

Next == \E x \in Sides : Lock(x) \/ Deliver(x) \/ Forge(x)

Spec == Init /\ [][Next]_vars

\* The two clients and the wire alone: no message the peer did not lock.
NextHonest == \E x \in Sides : Lock(x) \/ Deliver(x)

SpecHonest == Init /\ [][NextHonest]_vars

\* No message is given to a client after the client has opened it.
NextOnce == \E x \in Sides : Lock(x) \/ DeliverOnce(x)

SpecOnce == Init /\ [][NextOnce]_vars

\* Each side opens the peer's messages in increasing message_index order.
NextInOrder == \E x \in Sides : Lock(x) \/ DeliverInOrder(x)

SpecInOrder == Init /\ [][NextInOrder]_vars

\* One direction of the session: A locks, buffers at the length bound among
\* them, and B opens A's messages in increasing message_index order.
NextSend == Lock("A") \/ LockLong("A") \/ Receive("B")

SpecSend == Init /\ [][NextSend]_vars

\* A locks, B opens each message once in any order, and either client is
\* serialised, deserialised and serialised again at any point.
NextSerde ==
  \/ Lock("A")
  \/ DeliverOnce("B")
  \/ \E x \in Sides : Save(x)
  \/ \E local \in BOOLEAN : Load(local)
  \/ SaveLoaded

SpecSerde == Init /\ [][NextSerde]_vars

\* The seeds a caller may hold: up to one byte more than the state, each
\* byte 0 or 1.
RECURSIVE SeedsOf(_)
SeedsOf(n) ==
  IF n = 0 THEN {<<>>}
  ELSE {Append(b, <<v>>) : b \in SeedsOf(n - 1), v \in {0, 1}}

Seeds == UNION {SeedsOf(n) : n \in 0..(StateSize + 1)}

\* The caller fills a buffer with seed bytes.
FillSeed ==
  /\ \E seed \in Seeds :
       mem' = [mem EXCEPT !.seed = seed, !.op = "seed", !.given = <<>>,
                          !.was = StateDefault]
  /\ UNCHANGED <<client, wire, opened, order, forged, last, disk, link>>

\* Ratchet::from(&mut seed).  The ClearOnDrop around the seed is dropped
\* when from returns and when it unwinds; on a panic the new Ratchet is
\* dropped as well.
FromSeed ==
  /\ ~mem.live
  /\ mem' = [seed |-> ClearOnDrop(mem.seed),
             live |-> ~FromPanics(mem.seed),
             state |-> IF FromPanics(mem.seed) THEN ClearOnDrop(StateDefault)
                       ELSE StateFrom(mem.seed),
             n |-> 0,
             op |-> IF FromPanics(mem.seed) THEN "panic" ELSE "from",
             given |-> mem.seed, was |-> StateDefault]
  /\ UNCHANGED <<client, wire, opened, order, forged, last, disk, link>>

\* Ratchet::next.
NextBytes ==
  /\ mem.live
  /\ mem.n < MaxNext
  /\ mem' = [mem EXCEPT !.state = StateNext(@), !.n = @ + 1, !.op = "next",
                        !.given = <<>>, !.was = StateDefault]
  /\ UNCHANGED <<client, wire, opened, order, forged, last, disk, link>>

\* The Ratchet is dropped: its state is a ClearOnDrop.
DropRatchet ==
  /\ mem.live
  /\ mem' = [mem EXCEPT !.live = FALSE, !.state = ClearOnDrop(@),
                        !.op = "drop", !.given = <<>>, !.was = mem.state]
  /\ UNCHANGED <<client, wire, opened, order, forged, last, disk, link>>

\* Both sides lock and open messages of ratchet steps new to them; B opens
\* A's messages in any order.
NextStep == (\E x \in Sides : Lock(x) \/ ForgeStep(x)) \/ Deliver("B")

SpecStep == Init /\ [][NextStep]_vars

\* A locks, the AEAD failing to seal some of the buffers, and B opens A's
\* messages in increasing message_index order.
NextSeal == Lock("A") \/ LockUnsealed("A") \/ DeliverInOrder("B")

SpecSeal == Init /\ [][NextSeal]_vars

\* A locks and B opens each message of A at most once, in any order; B
\* locks buffers whose length is at the bound and buffers the AEAD fails
\* to seal.
NextLock ==
  Lock("A") \/ DeliverOnce("B") \/ LockLong("B") \/ LockUnsealed("B")

SpecLock == Init /\ [][NextLock]_vars

\* Both sides open messages their peer did not lock: of the current step,
\* of a step new to them, of a step they have left.
NextOpen == \E x \in Sides : EpochStep(x) \/ ForgeKnown(x)

SpecOpen == Init /\ [][NextOpen]_vars

\* A locks buffers whose length is at the bound, and opens messages of
\* ratchet steps new to it.
NextReuse == LockLong("A") \/ FreshStep("A")

SpecReuse == Init /\ [][NextReuse]_vars

\* A locks; B opens A's messages in any order, and messages of its current
\* step with the largest index.
NextLast == Lock("A") \/ Deliver("B") \/ OpenLast("B")

SpecLast == Init /\ [][NextLast]_vars

\* A sends to B over a stream on which copies of its messages with altered
\* data are put among them; the bytes reach B some messages at a time and
\* B calls recv at any time.
NextInject == Send("A") \/ Inject("B") \/ ArriveAll("B") \/ Recv("B")

SpecInject == Init /\ [][NextInject]_vars

\* A locks; B opens A's messages in any order, and copies of them with
\* altered data.
NextTamper == Lock("A") \/ Deliver("B") \/ Tamper("B")

SpecTamper == Init /\ [][NextTamper]_vars

\* Both sides open messages of ratchet steps new to them.
NextEpoch == \E x \in Sides : EpochStep(x)

SpecEpoch == Init /\ [][NextEpoch]_vars

\* A chain is made from seed bytes, drawn from and dropped.
NextMem == FillSeed \/ FromSeed \/ NextBytes \/ DropRatchet

SpecMem == Init /\ [][NextMem]_vars

\* A sends to B over a stream, the bytes reach B some at a time, A drops
\* its end at some point, and B calls recv at any time.
NextFramed == Send("A") \/ Arrive("B") \/ Close("B") \/ Recv("B")

SpecFramed == Init /\ [][NextFramed]_vars

\* -------------------------------------------------------------- claims --
\* The last call was an open, on side x, of a message x's peer locked.
OpenedGenuine == last.op = "open" /\ last.genuine
\* The open returned the plaintext that was locked.
Recovered == last.res = "Ok" /\ last.pt = last.message.data.pt
\* The header of the messages side x locked first: its public key is the
\* one x was constructed with.
FirstEpochKey(x) == PublicOf(IF x = "A" THEN SkLocal ELSE SkRemote)

\* C1: whatever the order in which the peer's messages are delivered, a
\* message is opened successfully the first time it is delivered, with the
\* plaintext that was locked, and never a second time.
C1_RoundTrip ==
  OpenedGenuine =>
    IF last.first THEN Recovered ELSE last.res # "Ok"

\* C2: when each side opens the peer's messages in increasing
\* message_index order, some of them never, every open succeeds and yields
\* the plaintext that was locked.
C2_InOrderOpens == OpenedGenuine => Recovered

\* C2, its case: A opens B's second message, B's first one never delivered,
\* after B has opened a message of A.
C2_Witness ==
  /\ OpenedGenuine /\ last.side = "A" /\ Recovered
  /\ last.message.header.message_index = 1
  /\ opened["A"] = {last.message}
  /\ opened["B"] # {}

\* C3: A locks the messages of index 0, 1, 2; B opens index 2, then index 0,
\* then index 1: the third open succeeds as the first two did, and yields
\* its plaintext.
C3_OutOfOrder ==
  ( /\ OpenedGenuine /\ last.side = "B"
    /\ last.message.header.message_index = 1
    /\ order["B"] \in {<<2, 0>>, <<2, 0, 1>>} )
  => Recovered

\* C4: a message that was opened successfully is refused with NoKey
\* whenever it is given to open again.
C4_SingleUse ==
  (OpenedGenuine /\ ~last.first) => last.res = "NoKey"

\* C5: an open that returns an error leaves the client as it was before
\* the call.
C5_FailedOpenUnchanged ==
  (last.op = "open" /\ last.res # "Ok") => client[last.side] = last.pre

\* The last call opened, on side x, a copy with altered data of a message
\* of x's peer that x has not opened.
TamperedCopy ==
  /\ last.op = "open" /\ ~last.genuine
  /\ last.message.data = Tampered
  /\ \E m \in FromPeer(last.side) \ opened[last.side] :
       m.header = last.message.header

\* C6: the open of a copy with altered data of a genuine message not yet
\* opened returns Decryption, and the open of the genuine message that
\* follows it on the same client succeeds and yields the plaintext.
C6_TamperRecovery ==
  [][ /\ TamperedCopy => last.res = "Decryption"
      /\ ( /\ TamperedCopy
           /\ last'.op = "open" /\ last'.side = last.side /\ last'.genuine
           /\ last'.message.header = last.message.header )
         => (last'.res = "Ok" /\ last'.pt = last'.message.data.pt) ]_vars

\* C7: when A opens the first message of B it is given, after B has opened
\* a message of A, the open succeeds and takes a ratchet step: the public
\* key of A's next header changes, its index is 0, and both chains of A are
\* reseeded.
C7_RatchetTrigger ==
  ( /\ OpenedGenuine /\ last.side = "A"
    /\ opened["B"] # {}
    /\ opened["A"] \subseteq {last.message} )
  => /\ Recovered
     /\ client["A"].lock.next_header.public_key
          # last.pre.lock.next_header.public_key
     /\ client["A"].lock.next_header.message_index = 0
     /\ client["A"].lock.ratchet.seed # last.pre.lock.ratchet.seed
     /\ client["A"].open.ratchet.seed # last.pre.open.ratchet.seed

\* The last call opened a message of a previous step whose OpenData is
\* still stored for that step, and which was sealed under it.
LateMessage ==
  /\ last.op = "open"
  /\ last.message.header.public_key \in DOMAIN last.pre.open.previous_keys
  /\ LET table == last.pre.open.previous_keys[last.message.header.public_key]
     IN  /\ last.message.header.message_index \in DOMAIN table
         /\ last.message.data.kb = table[last.message.header.message_index]

\* C8: a message of a previous step is opened with the OpenData stored for
\* its index under its public key in previous_keys; the call takes no
\* ratchet step and leaves the opening chain where it was.
C8_LateMessage ==
  LateMessage =>
    /\ last.res = "Ok"
    /\ last.key = last.pre.open.previous_keys[last.message.header.public_key]
                                             [last.message.header.message_index]
    /\ client[last.side].open.ratchet = last.pre.open.ratchet
    /\ client[last.side].open.current_public_key = last.pre.open.current_public_key

\* C9: a message of a sender that has locked messages under two public
\* keys is opened successfully, with its plaintext, the first time its peer
\* is given it, whichever of the two steps it is from and whichever the
\* peer was given first.
C9_TwoEpochs ==
  ( /\ OpenedGenuine /\ last.first
    /\ \E w \in wire : /\ w.from = Peer(last.side)
                       /\ w.header.public_key # last.message.header.public_key )
  => Recovered

\* C10: the public key of the next header of a client is the public key of
\* the private key the client holds.
C10_HeaderKey ==
  \A x \in Sides :
    client[x].lock.next_header.public_key = PublicOf(client[x].private_key)

\* C11: right after A = connect(pkB, skA) and B = accept(pkA, skB), the
\* locking chain of A is in the state of the opening chain of B, and the
\* opening chain of A in the state of the locking chain of B.
C11_Establishment ==
  last.op = "init" =>
    /\ client["A"].lock.ratchet = client["B"].open.ratchet
    /\ client["A"].open.ratchet = client["B"].lock.ratchet

\* C11, its case: the two clients as constructed, the two chains of A
\* seeded differently, neither left at its default.
C11_Witness ==
  /\ last.op = "init"
  /\ client["A"].lock.ratchet # client["A"].open.ratchet
  /\ client["A"].lock.ratchet # RatchetDefault
  /\ client["B"].lock.ratchet # RatchetDefault

\* The last call was an open that took a ratchet step and kept it.
StepTaken ==
  last.op = "open" /\ last.res = "Ok" /\ NewStep(last.pre, last.message)

\* The headers of the messages side x has locked.
HeadersOf(x) == {w.header : w \in {v \in wire : v.from = x}}

C13_BufferZeroed ==
  (last.op = "lock" /\ last.res = "Ok") =>
    /\ BufLen(last.buffer) = BufLen(last.given)
    /\ \A i \in DOMAIN last.buffer : last.buffer[i].byte = 0

\* C13, its case: a lock that succeeded on a buffer of MsgLen bytes, none
\* of them zero.
C13_Witness ==
  /\ last.op = "lock" /\ last.res = "Ok"
  /\ BufLen(last.given) = MsgLen
  /\ \A i \in DOMAIN last.given : last.given[i].byte # 0

\* C14: when open succeeds, the output buffer holds what it held before
\* followed by the plaintext and nothing else, the length added is the
\* length of the data less the tag, and the slice returned is the
\* plaintext.
C14_Appended ==
  (last.op = "open" /\ last.res = "Ok") =>
    /\ last.buffer = last.given \o last.message.data.pt
    /\ Take(last.buffer, BufLen(last.given)) = last.given
    /\ BufLen(last.buffer) - BufLen(last.given)
         = BufLen(DataBytes(last.message.data)) - TagLength
    /\ last.pt = last.message.data.pt

\* C14, its case: an open that succeeded into a buffer that held bytes.
C14_Witness ==
  /\ last.op = "open" /\ last.res = "Ok"
  /\ last.given # <<>>
  /\ last.message.data.pt # <<>>

\* C15: a lock of a buffer longer than
\* floor((usize::MAX - TagLength) / BlockSize) * BlockSize returns
\* MessageLength and changes nothing: the client and the buffer are as
\* they were.
C15_TooLong ==
  ( /\ last.op = "lock"
    /\ BufLen(last.given) > ((UsizeMax - TagLength) \div BlockSize) * BlockSize )
  => /\ last.res = "MessageLength"
     /\ client[last.side] = last.pre
     /\ last.buffer = last.given

\* C15, its case: a client that has locked a buffer of the longest length
\* accepted is given one that is one byte longer.
C15_Witness ==
  /\ last.op = "lock" /\ last.res = "MessageLength"
  /\ BufLen(last.given) = MaxMessageLength + 1
  /\ \E w \in wire : BufLen(w.data.pt) = MaxMessageLength
  /\ \A i \in DOMAIN last.given : last.given[i].byte # 0

\* The chains of the session.
Chains == {client[x].lock.ratchet : x \in Sides}
            \cup {client[x].open.ratchet : x \in Sides}

C17_SerdeRoundTrip ==
  /\ (disk.op \in {"load", "resave"} /\ disk.as = disk.local) =>
        disk.res = "Ok" /\ disk.loaded = disk.source
  /\ (disk.op = "load" /\ disk.as # disk.local) => disk.res = "Err"
  /\ disk.op = "resave" => disk.again = disk.bytes

\* ------------------------------------------------------ claims: Framed --
\* The bytes a recv call had to work with: the unparsed bytes the Framed
\* held and the bytes it could read.
HadBytes == last.link.buffer \o last.link.io

\* A read after the readable bytes would have returned 0.
HadEof == last.link.closed /\ last.link.flight = <<>>

\* bytes is the start of the serialisation of one message and not all of it.
ProperPrefix(bytes) ==
  /\ Len(bytes) < FrameLen
  /\ bytes # <<>> => bytes = SubSeq(Encode(bytes[1].m), 1, Len(bytes))

\* bytes starts with the whole serialisation of a message.
WholeFront(bytes) ==
  /\ Len(bytes) >= FrameLen
  /\ SubSeq(bytes, 1, FrameLen) = Encode(bytes[1].m)

\* C18: a recv that finds only a proper prefix of a message, on a source
\* that has no more data and is not at its end, returns Pending, leaves the
\* prefix in the buffer of the Framed and the client as it was; a recv that
\* finds the rest of a message whose prefix was buffered returns
\* Ready(Some) with the plaintext of that message.
C18_PartialPending ==
  last.op = "recv" =>
    /\ (ProperPrefix(HadBytes) /\ ~HadEof) =>
         /\ last.res = "Pending"
         /\ link[last.side].buffer = HadBytes
         /\ client[last.side] = last.pre
    /\ (last.link.buffer # <<>> /\ ProperPrefix(last.link.buffer)
          /\ WholeFront(HadBytes)) =>
         /\ last.res = "Some"
         /\ last.message = HadBytes[1].m
         /\ last.pt = HadBytes[1].m.data.pt

\* A recv returned a message of which the Framed had buffered a prefix: an
\* earlier recv found the prefix alone and returned Pending.
C18_Witness ==
  /\ last.op = "recv"
  /\ last.res = "Some"
  /\ last.link.buffer # <<>>
  /\ ProperPrefix(last.link.buffer)

\* C19: the messages B's recv calls have returned are the messages A sent,
\* in the order of sending; a recv that finds a whole message returns that
\* message alone with its own plaintext, and the bytes after it stay first
\* in line for the calls that follow.
C19_FramedInOrder ==
  /\ order["B"] = [i \in 1..Len(order["B"]) |-> i - 1]
  /\ (last.op = "recv" /\ WholeFront(HadBytes)) =>
       /\ last.res = "Some"
       /\ last.message = HadBytes[1].m
       /\ last.message \in FromPeer(last.side)
       /\ last.message.header.message_index = Len(order[last.side]) - 1
       /\ last.pt = last.message.data.pt
       /\ last.buffer = last.pt
       /\ Len(link[last.side].buffer \o link[last.side].io)
            >= Len(HadBytes) - FrameLen
       /\ SubSeq(link[last.side].buffer \o link[last.side].io,
                 1, Len(HadBytes) - FrameLen)
            = SubSeq(HadBytes, FrameLen + 1, Len(HadBytes))
  /\ (last.op = "recv" /\ last.res = "Some") => WholeFront(HadBytes)

\* The second of two messages sent back to back is returned: the recv
\* before it found both and left this one in the buffer.
C19_Witness ==
  /\ last.op = "recv"
  /\ last.res = "Some"
  /\ last.message.header.message_index = 1
  /\ WholeFront(last.link.buffer)
  /\ \E w \in opened[last.side] :
       w.header.message_index = 0 /\ w.data.pt # last.pt

\* C20: recv returns Ready(None) exactly when the source is at its end and
\* no unparsed byte is buffered or readable; at the end of the source with
\* a partial message left, recv returns the error Recv(UnexpectedEof).
C20_EndOfStream ==
  last.op = "recv" =>
    /\ last.res = "None" <=> (HadEof /\ HadBytes = <<>>)
    /\ (HadEof /\ HadBytes # <<>> /\ ProperPrefix(HadBytes)) =>
         last.res = "UnexpectedEof"

\* A recv at the end of the source found a partial message, and one found
\* nothing left after a message had been returned.
C20_Witness ==
  /\ last.op = "recv"
  /\ HadEof
  /\ \/ HadBytes # <<>> /\ ProperPrefix(HadBytes)
     \/ HadBytes = <<>> /\ order[last.side] # <<>>

\* ------------------------------------------------------ claims: memory --
\* C21: the bytes where the state of a dropped Ratchet was are all zero,
\* whatever the state was, and the seed bytes given to Ratchet::from are all
\* zero once it has returned, the Ratchet having taken them as its state.
C21_Zeroized ==
  /\ ~mem.live => \A i \in 1..StateSize : mem.state[i] = <<0>>
  /\ mem.op \in {"from", "panic"} =>
       /\ Len(mem.seed) = Len(mem.given)
       /\ \A i \in 1..Len(mem.seed) : mem.seed[i] = <<0>>
  /\ mem.op = "from" =>
       \A i \in 1..StateSize :
         mem.state[i] = IF i <= Len(mem.given) THEN mem.given[i] ELSE <<0>>

\* A Ratchet that was drawn from has been dropped, and its state was not
\* zero before.
C21_Witness ==
  /\ mem.op = "drop"
  /\ mem.n > 0
  /\ \E i \in 1..StateSize : mem.was[i] # <<0>>

\* ----------------------------------------------- claims: ratchet steps --
\* The last call was an open of a message of a ratchet step new to the
\* client.
StepOpen == last.op = "open" /\ NewStep(last.pre, last.message)

\* C22: an open of a message of a new ratchet step that returns an error
\* leaves the locking half, the opening chain, sent_count, the current
\* public key, current_keys, previous_keys and the private key as they were
\* before the call.
C22_StepRollback ==
  (StepOpen /\ last.res # "Ok") => client[last.side] = last.pre

\* The last call opened a message of the client's current ratchet step.
CurrentStepOpened ==
  /\ last.op = "open" /\ last.res = "Ok"
  /\ last.message.header.public_key = last.pre.open.current_public_key

\* C23: after the open of a message with index i of the current step, on a
\* client whose sent_count was c, sent_count is the larger of c and i + 1;
\* for i >= c the opening chain has made i - c + 1 draws and the indices
\* from c up to i, the opened one excepted, have a key stored; for i < c
\* the chain has made no draw.
C23_Backfill ==
  CurrentStepOpened =>
    LET c == last.pre.open.sent_count
        i == last.message.header.message_index
        now == client[last.side].open
    IN  /\ now.sent_count = IF i + 1 > c THEN i + 1 ELSE c
        /\ now.ratchet.seed = last.pre.open.ratchet.seed
        /\ now.ratchet.n
             = last.pre.open.ratchet.n + (IF i >= c THEN i - c + 1 ELSE 0)
        /\ \A k \in c..(i - 1) : k \in DOMAIN now.current_keys

\* Side x has opened the message with index i of its current step.
OpenedIndex(x, i) ==
  \E m \in opened[x] :
    /\ m.header.message_index = i
    /\ m.header.public_key = client[x].open.current_public_key

\* C24: in every state and on each side, an index has a key in
\* current_keys exactly if it is below sent_count and no message with that
\* index of the current step has been opened.
C24_ReceiveTable ==
  \A x \in Sides : \A i \in 0..MaxLock :
    i \in DOMAIN client[x].open.current_keys
      <=> (i < client[x].open.sent_count /\ ~OpenedIndex(x, i))

\* The block a chain with this seed yields at its draw number i + 1.
BlockAt(seed, i) == Append(seed, i)

\* Every key of the table is the block its chain yields for the index it
\* is stored under.
Aligned(table) ==
  \A i \in DOMAIN table :
    table[i] = BlockAt(SubSeq(table[i], 1, Len(table[i]) - 1), i)

\* C25: in every state the key stored for index i, in current_keys or in a
\* table of previous_keys, is the block number i + 1 of the opening chain
\* of its step, which is the block the peer locked its message i under.
C25_KeyAlignment ==
  \A x \in Sides :
    /\ \A i \in DOMAIN client[x].open.current_keys :
         /\ client[x].open.current_keys[i]
              = BlockAt(client[x].open.ratchet.seed, i)
         /\ \A m \in FromPeer(x) :
              ( /\ m.header.public_key = client[x].open.current_public_key
                /\ m.header.message_index = i )
              => m.data.kb = client[x].open.current_keys[i]
    /\ \A pk \in DOMAIN client[x].open.previous_keys :
         /\ Aligned(client[x].open.previous_keys[pk])
         /\ \A i \in DOMAIN client[x].open.previous_keys[pk] :
              \A m \in FromPeer(x) :
                (m.header.public_key = pk /\ m.header.message_index = i)
                => m.data.kb = client[x].open.previous_keys[pk][i]

\* The last call was an open that took a ratchet step and kept it.
StepCommitted == StepOpen /\ last.res = "Ok"

\* The bytes the step seed of the last call was made from: the shared
\* secret of the new private key and the public key of the message.
StepSecret ==
  DiffieHellman(client[last.side].private_key, last.message.header.public_key)

\* The seed of the chain reseeded first from the step seed, and of the one
\* reseeded second.
FirstSeed == Append(StepSecret, 0)
SecondSeed == Append(StepSecret, 1)

C27_StepHeader ==
  StepCommitted =>
    LET next_header == client[last.side].lock.next_header
    IN  /\ next_header.public_key = PublicOf(client[last.side].private_key)
        /\ next_header.message_index = 0
        /\ next_header.previous_step
             = last.pre.lock.next_header.message_index

\* C28: when a message with header H commits a ratchet step, the table
\* stored in previous_keys under the old current public key is the whole
\* old current_keys together with, for the indices from the old sent_count
\* up to H.previous_step - 1, the next draws of the old opening chain; the
\* other tables of previous_keys stay; the current public key is
\* H.public_key, and sent_count and current_keys count the messages of
\* the new step only, from 0.
C28_Archive ==
  StepCommitted =>
    LET old == last.pre.open
        now == client[last.side].open
        H == last.message.header
        skipped == old.sent_count..(H.previous_step - 1)
        archived == now.previous_keys[old.current_public_key]
    IN  /\ DOMAIN now.previous_keys
             = DOMAIN old.previous_keys \cup {old.current_public_key}
        /\ \A pk \in DOMAIN old.previous_keys :
             now.previous_keys[pk] = old.previous_keys[pk]
        /\ DOMAIN archived = DOMAIN old.current_keys \cup skipped
        /\ \A i \in DOMAIN old.current_keys :
             archived[i] = old.current_keys[i]
        /\ \A i \in skipped :
             archived[i]
               = BlockAt(old.ratchet.seed,
                         old.ratchet.n + (i - old.sent_count))
        /\ now.current_public_key = H.public_key
        /\ now.sent_count = H.message_index + 1
        /\ DOMAIN now.current_keys = 0..(H.message_index - 1)
        /\ \A i \in DOMAIN now.current_keys :
             now.current_keys[i] = BlockAt(now.ratchet.seed, i)

FailedWithKey == last.op = "open" /\ last.res # "Ok" /\ last.key # <<>>

\* The OpenData the last open took was stored under the index of the
\* message before the call.
KeyTaken ==
  LET index == last.message.header.message_index
  IN  /\ index \in DOMAIN last.pre.open.current_keys
      /\ last.pre.open.current_keys[index] = last.key

\* C30: when the opening half has taken a stored OpenData for a message
\* and the data does not authenticate, the same OpenData is stored again
\* under the same index of the table it was taken from, no table of
\* previous_keys changes, and the error carries the message as it was
\* given.
C30_Reinstated ==
  /\ FailedWithKey => last.err = last.message
  /\ (FailedWithKey /\ KeyTaken) =>
       LET index == last.message.header.message_index
           now == client[last.side].open
       IN  /\ index \in DOMAIN now.current_keys
           /\ now.current_keys[index] = last.key
           /\ now.previous_keys = last.pre.open.previous_keys

\* An open of altered data failed with a stored OpenData taken for it.
C30_Witness == FailedWithKey /\ KeyTaken /\ last.message.data = Tampered

\* ---------------------------------------------- claims: failed locks --
\* The last call was a lock the AEAD failed to seal.
SealFailed == last.op = "lock" /\ last.res = "Encryption"

\* C31: a lock whose sealing fails returns Encryption and leaves the
\* locking chain one draw on and the index of the next header one up; the
\* index of the next header of A stays the number of draws its locking
\* chain has made, and every message A locks, also after a failed lock,
\* is opened by B to the plaintext locked.
C31_SealFailure ==
  /\ SealFailed =>
       LET was == last.pre.lock
           now == client[last.side].lock
       IN  /\ now.ratchet.seed = was.ratchet.seed
           /\ now.ratchet.n = was.ratchet.n + 1
           /\ now.next_header
                = [was.next_header EXCEPT !.message_index = @ + 1]
           /\ last.message = NoMessage
  /\ client["A"].lock.ratchet.n = client["A"].lock.next_header.message_index
  /\ (OpenedGenuine /\ last.side = "B") => Recovered

\* B has opened a message A locked after a lock of A whose sealing failed:
\* an index below that of the message was given to no message.
C31_Witness ==
  /\ OpenedGenuine /\ last.side = "B" /\ Recovered
  /\ \E i \in 0..(last.message.header.message_index - 1) :
       \A m \in FromPeer("B") : m.header.message_index # i

\* C32: a lock, whether it returns a message or an error, leaves the
\* opening half (its chain, sent_count, current public key, current_keys
\* and previous_keys) and the private key as they were.
C32_LockFrame ==
  last.op = "lock" =>
    /\ client[last.side].open = last.pre.open
    /\ client[last.side].private_key = last.pre.private_key

\* A lock failed on a client that has opened messages and holds keys of
\* messages it skipped.
C32_Witness ==
  /\ last.op = "lock" /\ last.res # "Ok"
  /\ last.pre.open.sent_count > 0
  /\ last.pre.open.current_keys # EmptyMap

C34_NoKeyReuse ==
  [][ /\ (last'.op = "lock" /\ last'.res = "Ok") =>
           \A w \in wire : w.from = last'.side => w.data.kb # last'.key
      /\ \A x \in Sides :
           \/ /\ client'[x].lock.ratchet.seed = client[x].lock.ratchet.seed
              /\ client'[x].lock.ratchet.n >= client[x].lock.ratchet.n
           \/ /\ last'.op = "open" /\ last'.side = x /\ last'.res = "Ok"
              /\ NewStep(client[x], last'.message)
              /\ client'[x].lock.ratchet.n = 0 ]_vars

\* A has locked a message after a ratchet step, and one before it.
C34_Witness ==
  /\ last.op = "lock" /\ last.res = "Ok"
  /\ \E w \in wire :
       w.from = last.side /\ SecretOf(w.data.kb) # SecretOf(last.key)

\* C35: in every state and on each side the public key of the next header
\* of the locking half is not the bytes of the client's private key.
C35_SecretNotInHeader ==
  \A x \in Sides :
    client[x].lock.next_header.public_key # client[x].private_key

\* C36: an open that fails leaves the caller's buffer as it was given.
C36_FailedOpenBuffer ==
  (last.op = "open" /\ last.res # "Ok") => last.buffer = last.given

\* -------------------------------------------- claims: index overflow --
\* The last call was an open of a message of the current step whose index
\* is the largest a header holds.
LastIndexOpen == last.op = "open" /\ Overflows(last.pre, last.message)

\* C37: the open of a message of the current step with the largest index
\* returns an error and leaves sent_count, the opening chain and the key
\* tables as they were.
C37_NoOverflow ==
  LastIndexOpen =>
    /\ last.res \in {"NoKey", "Decryption"}
    /\ client[last.side].open = last.pre.open

\* ------------------------------------------ claims: framed consumption --
\* C38: a recv that finds a whole message at the front of its bytes takes
\* that message, whether the client opens it or fails to; the error
\* carries the message; exactly the bytes of that message are removed and
\* the bytes after it stay first in line for the calls that follow.
C38_Consumed ==
  (last.op = "recv" /\ WholeFront(HadBytes)) =>
    /\ last.res \in {"Some", "Open"}
    /\ last.message = HadBytes[1].m
    /\ Len(link[last.side].buffer \o link[last.side].io)
         >= Len(HadBytes) - FrameLen
    /\ SubSeq(link[last.side].buffer \o link[last.side].io,
              1, Len(HadBytes) - FrameLen)
         = SubSeq(HadBytes, FrameLen + 1, Len(HadBytes))

\* A recv failed to open the message at the front, with the bytes of a
\* message sent after it already there.
C38_Witness ==
  /\ last.op = "recv" /\ last.res = "Open"
  /\ Len(HadBytes) >= 2 * FrameLen
  /\ \E m \in FromPeer(last.side) :
       SubSeq(HadBytes, FrameLen + 1, 2 * FrameLen) = Encode(m)

\* ------------------------------------------ claims: chain construction --
\* A Ratchet has just been asked for from seed bytes.
FromCalled == mem.op \in {"from", "panic"}

\* C39: Ratchet::from never fails: for seed bytes of any length it returns
\* a Ratchet whose state is the first bytes of the seed, as many as the
\* state holds, followed by zero bytes, and it leaves the seed bytes all
\* zero.
C39_FromSeedBytes ==
  FromCalled =>
    /\ mem.op = "from" /\ mem.live
    /\ \A i \in 1..StateSize :
         mem.state[i] = IF i <= Len(mem.given) THEN mem.given[i] ELSE <<0>>
    /\ Len(mem.seed) = Len(mem.given)
    /\ \A i \in 1..Len(mem.seed) : mem.seed[i] = <<0>>

====
